---- MODULE Spec2Model ----
(***************************************************************************)
(* Model of src/main.py: the static metro graph built at import time       *)
(* (add_line, STATION_BY_ID, the TRANSFERS loop), the A* search a_star     *)
(* with its itinerary assembly, and the /api/route handler compute_route.  *)
(*                                                                         *)
(* Arithmetic.  The code computes on floats; the model computes exactly,   *)
(* in units of 1/Scale.  The station coordinates are drawn from point sets *)
(* whose pairwise Euclidean distances are integers, so math.hypot is       *)
(* exact, and the multipliers 1.5 and 1.15 and the tie-break 0.5 are all   *)
(* whole numbers of units.  Reported totals are in thousandths, as         *)
(* round(x, 3) reports them.                                               *)
(*                                                                         *)
(* Station ids are the integers 1..NumStations; NumStations + 1 is an id   *)
(* that is absent from the catalog.                                        *)
(***************************************************************************)
EXTENDS Integers, Sequences, FiniteSets, TLC

\* ------------------------------------------------------------------ bounds
NumStations == 4
NumRequests == 2
PenaltyHalfUnits == 2

\* -------------------------------------------------------------- constants
Scale == 20
Inf == -1
None == "None"

Ids == 1..NumStations
UnknownId == NumStations + 1
Requests == 1..NumRequests

\* The lines of the bounded catalog, in the order add_line is called for them.
LineOrder == <<"1", "3">>
Lines == {LineOrder[i] : i \in DOMAIN LineOrder}
CONGESTED == {"3", "9"}

\* Schematic coordinates with integer pairwise distances (3, 4, 5).
PointList == <<<<0, 0>>, <<3, 0>>, <<0, 4>>>>
Points == {PointList[i] : i \in DOMAIN PointList}
PointRank(p) == CHOOSE i \in DOMAIN PointList : PointList[i] = p

Penalties == {0, 2 * PenaltyHalfUnits}

RouteOptions == [transfer_penalty : Penalties,
                 mobility : {"normal", "reduced"},
                 time_of_day : {"offpeak", "peak"},
                 prefer_fewer_transfers : BOOLEAN]

VARIABLES STATIONS, EDGES, STATION_BY_ID,
          req, pc, neighbors, open_set, came_from, came_etype,
          g_score, f_score, transfers_count, path_ids, result

graph == <<STATIONS, EDGES, STATION_BY_ID>>
scratch == <<neighbors, open_set, came_from, came_etype, g_score, f_score,
             transfers_count, path_ids>>
vars == <<STATIONS, EDGES, STATION_BY_ID, req, pc, neighbors, open_set,
          came_from, came_etype, g_score, f_score, transfers_count,
          path_ids, result>>

\* ------------------------------------------------------------ GraphBuilder
RECURSIVE SetToSeq(_)
SetToSeq(S) ==
    IF S = {} THEN <<>>
    ELSE LET m == CHOOSE x \in S : \A y \in S : x <= y
         IN <<m>> \o SetToSeq(S \ {m})

\* The consecutive pairs of a line, each in both directions.
RECURSIVE LineEdges(_, _)
LineEdges(ids, i) ==
    IF i >= Len(ids) THEN <<>>
    ELSE <<<<ids[i], ids[i + 1], "line">>, <<ids[i + 1], ids[i], "line">>>>
         \o LineEdges(ids, i + 1)

\* add_line(line, names): names is a sequence of <<sid, x, y>>.
AddLine(g, line, names) ==
    [stations |-> g.stations \o
        [i \in 1..Len(names) |->
            [id |-> names[i][1], line |-> line, x |-> names[i][2],
             y |-> names[i][3], order |-> i]],
     edges |-> g.edges \o LineEdges([i \in 1..Len(names) |-> names[i][1]], 1)]

StationById(stations) ==
    [sid \in {stations[i].id : i \in DOMAIN stations} |->
        stations[CHOOSE i \in DOMAIN stations :
                   /\ stations[i].id = sid
                   /\ \A j \in DOMAIN stations : stations[j].id = sid => j <= i]]

\* The loop over TRANSFERS: a pair with an absent endpoint is skipped.
RECURSIVE AddTransfers(_, _, _)
AddTransfers(edges, byId, pairs) ==
    IF pairs = <<>> THEN edges
    ELSE LET a == Head(pairs)[1]
             b == Head(pairs)[2]
             added == IF a \in DOMAIN byId /\ b \in DOMAIN byId
                      THEN edges \o <<<<a, b, "transfer">>, <<b, a, "transfer">>>>
                      ELSE edges
         IN AddTransfers(added, byId, Tail(pairs))

\* ---------------------------------------------------------------- CostModel
Isqrt(n) == CHOOSE r \in 0..n : r * r <= n /\ n < (r + 1) * (r + 1)

dist(a, b) == Scale * Isqrt((a.x - b.x) * (a.x - b.x) + (a.y - b.y) * (a.y - b.y))

\* Faulty variant of TimesReduced: the transfer cost doubled.
TimesReducedDouble(c) == c * 2

TimesReduced(c) == (c * 3) \div 2
TimesPeak(c) == (c * 23) \div 20
TieBreak == Scale \div 2

\* The cost a_star gives an edge when it builds the neighbor map.
StepCost(su, sv, etype, options) ==
    LET base == dist(su, sv)
        c1 == IF etype = "transfer" THEN base + options.transfer_penalty ELSE base
        c2 == IF options.mobility = "reduced" /\ etype = "transfer"
              THEN TimesReduced(c1) ELSE c1
    IN IF options.time_of_day = "peak" /\ etype = "line" /\ su.line \in CONGESTED
       THEN TimesPeak(c2) ELSE c2

\* neighbors: u -> the sequence of (v, cost, etype, line), in EDGES order.
NeighborsOf(edges, byId, options, u) ==
    LET out == SelectSeq(edges, LAMBDA e : e[1] = u)
    IN [k \in 1..Len(out) |->
           [v |-> out[k][2],
            cost |-> StepCost(byId[out[k][1]], byId[out[k][2]], out[k][3], options),
            etype |-> out[k][3],
            line |-> IF out[k][3] = "transfer" THEN None ELSE byId[out[k][1]].line]]

BuildNeighbors(edges, byId, options) ==
    [u \in {edges[i][1] : i \in DOMAIN edges} |-> NeighborsOf(edges, byId, options, u)]

\* ------------------------------------------------------------- PathFinder
Less(a, b) == b = Inf \/ (a # Inf /\ a < b)

\* Faulty variant of KeyLeq: the key read as (transfers_count, f_score).
KeyLeqSwapped(f, t, n, m) == t[n] < t[m] \/ (t[n] = t[m] /\ f[n] <= f[m])

\* The key of min(open_set, key=...): (f_score, transfers_count), compared
\* lexicographically.
KeyLeq(f, t, n, m) == f[n] < f[m] \/ (f[n] = f[m] /\ t[n] <= t[m])

\* The members of the frontier with the minimal key.  min() over a Python set
\* returns the first of them in the set's iteration order, which for str
\* members follows the process's hash seed: any of them may be returned.
MinSet(open, f, t) == {n \in open : \A m \in open : KeyLeq(f, t, n, m)}

\* Faulty variant of TieBreakOf: the tie-break put on line edges.
TieBreakOfLine(etype, options) ==
    IF options.prefer_fewer_transfers /\ etype = "line" THEN TieBreak ELSE 0

\* The search-only tie-break added to tentative.
TieBreakOf(etype, options) ==
    IF options.prefer_fewer_transfers /\ etype = "transfer" THEN TieBreak ELSE 0

\* Faulty variants of Improves: the sentinel compared as a number, and "<="
\* in place of "<".
ImprovesNaive(tentative, g) == tentative < g
ImprovesOrEqual(tentative, g) == Less(tentative, g) \/ tentative = g

Improves(tentative, g) == Less(tentative, g)

\* The body of the neighbor loop for one entry e of neighbors[current].
RelaxEdge(s, e, current, goal, options, byId) ==
    LET tentative == s.g_score[current] + e.cost + TieBreakOf(e.etype, options)
    IN IF Improves(tentative, s.g_score[e.v])
       THEN [came_from |-> (e.v :> current) @@ s.came_from,
             came_etype |-> (e.v :> e.etype) @@ s.came_etype,
             g_score |-> [s.g_score EXCEPT ![e.v] = tentative],
             f_score |-> [s.f_score EXCEPT
                             ![e.v] = tentative + dist(byId[e.v], goal)],
             transfers_count |-> [s.transfers_count EXCEPT
                 ![e.v] = s.transfers_count[current]
                          + (IF e.etype = "transfer" THEN 1 ELSE 0)],
             open_set |-> s.open_set \cup {e.v}]
       ELSE s

\* One pass of "for v, step_cost, etype, line in neighbors.get(current, [])".
\* The state after each entry is bound through a singleton set, so that it is
\* computed once.
RECURSIVE Relax(_, _, _, _, _, _)
Relax(s, nbrs, current, goal, options, byId) ==
    IF nbrs = <<>> THEN s
    ELSE CHOOSE out \in {Relax(s2, Tail(nbrs), current, goal, options, byId) :
                            s2 \in {RelaxEdge(s, Head(nbrs), current, goal,
                                              options, byId)}} : TRUE

NeighborsGet(nb, u) == IF u \in DOMAIN nb THEN nb[u] ELSE <<>>

\* ---------------------------------------------------------- RouteAssembler
\* Faulty variant of Reverse: the walk left in destination-first order.
ReverseForgotten(s) == s

Reverse(s) == [i \in 1..Len(s) |-> s[Len(s) + 1 - i]]

InEdges(edges, e) == \E i \in DOMAIN edges : edges[i] = e

\* The edge kind the assembler derives for the pair (a, b).
SegmentType(edges, a, b) ==
    IF InEdges(edges, <<a, b, "transfer">>) THEN "transfer" ELSE "line"

\* Faulty variant of SegmentCost: the search's tie-break reported as cost.
SegmentCostWithTieBreak(sa, sb, etype, options) ==
    dist(sa, sb)
    + (IF etype = "transfer"
       THEN options.transfer_penalty + TieBreakOf(etype, options) ELSE 0)

\* The cost the assembler reports for a segment of kind etype from a to b.
SegmentCost(sa, sb, etype, options) ==
    LET d == dist(sa, sb)
    IN IF etype = "transfer"
       THEN LET c == d + options.transfer_penalty
            IN IF options.mobility = "reduced" THEN TimesReduced(c) ELSE c
       ELSE IF options.time_of_day = "peak" /\ sa.line \in CONGESTED
            THEN TimesPeak(d) ELSE d

Segment(edges, byId, options, a, b) ==
    LET etype == SegmentType(edges, a, b)
    IN [from_id |-> a, to_id |-> b, type |-> etype,
        line |-> IF etype = "transfer" THEN None ELSE byId[a].line,
        distance |-> dist(byId[a], byId[b]),
        cost |-> SegmentCost(byId[a], byId[b], etype, options)]

Segments(edges, byId, options, path) ==
    LET segs == [i \in 1..(Len(path) - 1) |->
                    Segment(edges, byId, options, path[i], path[i + 1])]
    IN SubSeq(segs, 1, Len(path) - 1)

RECURSIVE SumField(_, _, _)
SumField(segs, i, field) ==
    IF i > Len(segs) THEN 0 ELSE segs[i][field] + SumField(segs, i + 1, field)

RECURSIVE LinesUsed(_, _, _)
LinesUsed(segs, i, acc) ==
    IF i > Len(segs) THEN acc
    ELSE CHOOSE out \in
             {LinesUsed(segs, i + 1, longer) :
                 longer \in {IF /\ segs[i].type = "line"
                                /\ ~(\E j \in DOMAIN acc : acc[j] = segs[i].line)
                             THEN Append(acc, segs[i].line) ELSE acc}} : TRUE

\* round(x, 3) of a value held in units of 1/Scale, in thousandths (ties to even).
Round3(v) ==
    LET n == v * 1000
        q == n \div Scale
        rem == n % Scale
    IN IF 2 * rem > Scale THEN q + 1
       ELSE IF 2 * rem = Scale THEN q + (q % 2)
       ELSE q

Assemble(edges, byId, options, path) ==
    CHOOSE out \in
        {[path |-> path,
          segments |-> segs,
          total_distance |-> Round3(SumField(segs, 1, "distance")),
          total_cost |-> Round3(SumField(segs, 1, "cost")),
          transfers |-> Cardinality({i \in DOMAIN segs : segs[i].type = "transfer"}),
          lines_used |-> LinesUsed(segs, 1, <<>>)] :
            segs \in {Segments(edges, byId, options, path)}} : TRUE

NoResult == [path |-> <<>>, segments |-> <<>>, total_distance |-> 0,
             total_cost |-> 0, transfers |-> 0, lines_used |-> <<>>]

ReflexiveResult(s) == [path |-> <<s.id>>, segments |-> <<>>, total_distance |-> 0,
                       total_cost |-> 0, transfers |-> 0, lines_used |-> <<s.line>>]


\* ---------------------------------------------------------------- requests
Known(sid) == sid \in DOMAIN STATION_BY_ID

Terminal == {"done", "notfound", "noroute"}

\* compute_route with origin_id == destination_id: the dedicated result, or 404.
ComputeRouteReflexive(r) ==
    /\ pc[r] = "request"
    /\ req[r].entry = "compute_route"
    /\ req[r].origin_id = req[r].destination_id
    /\ IF ~Known(req[r].origin_id)
       THEN /\ pc' = [pc EXCEPT ![r] = "notfound"]
            /\ UNCHANGED result
       ELSE /\ pc' = [pc EXCEPT ![r] = "done"]
            /\ result' = [result EXCEPT
                             ![r] = ReflexiveResult(STATION_BY_ID[req[r].origin_id])]
    /\ UNCHANGED <<graph, req, scratch>>

\* Faulty variant of AStarEnter: the neighbor map and the frontier are set up
\* before the ids are looked up.
AStarEnterLateCheck(r) ==
    /\ pc[r] = "request"
    /\ req[r].entry = "a_star" \/ req[r].origin_id # req[r].destination_id
    /\ neighbors' = [neighbors EXCEPT
           ![r] = BuildNeighbors(EDGES, STATION_BY_ID, req[r].options)]
    /\ open_set' = [open_set EXCEPT ![r] = {req[r].origin_id}]
    /\ came_from' = [came_from EXCEPT ![r] = <<>>]
    /\ came_etype' = [came_etype EXCEPT ![r] = <<>>]
    /\ g_score' = [g_score EXCEPT
           ![r] = [sid \in DOMAIN STATION_BY_ID |->
                      IF sid = req[r].origin_id THEN 0 ELSE Inf]]
    /\ f_score' = [f_score EXCEPT
           ![r] = [sid \in DOMAIN STATION_BY_ID |->
                      IF sid = req[r].origin_id /\ Known(req[r].destination_id)
                      THEN dist(STATION_BY_ID[sid],
                                STATION_BY_ID[req[r].destination_id])
                      ELSE Inf]]
    /\ transfers_count' = [transfers_count EXCEPT
           ![r] = [sid \in DOMAIN STATION_BY_ID |-> 0]]
    /\ pc' = [pc EXCEPT ![r] =
                 IF ~Known(req[r].origin_id) \/ ~Known(req[r].destination_id)
                 THEN "notfound" ELSE "search"]
    /\ UNCHANGED <<graph, req, result, path_ids>>

\* a_star up to the while loop: the id check, the neighbor map, the scores.
AStarEnter(r) ==
    /\ pc[r] = "request"
    /\ req[r].entry = "a_star" \/ req[r].origin_id # req[r].destination_id
    /\ IF ~Known(req[r].origin_id) \/ ~Known(req[r].destination_id)
       THEN /\ pc' = [pc EXCEPT ![r] = "notfound"]
            /\ UNCHANGED scratch
       ELSE LET o == req[r].origin_id
                start == STATION_BY_ID[o]
                goal == STATION_BY_ID[req[r].destination_id]
            IN /\ neighbors' = [neighbors EXCEPT
                      ![r] = BuildNeighbors(EDGES, STATION_BY_ID, req[r].options)]
               /\ open_set' = [open_set EXCEPT ![r] = {o}]
               /\ came_from' = [came_from EXCEPT ![r] = <<>>]
               /\ came_etype' = [came_etype EXCEPT ![r] = <<>>]
               /\ g_score' = [g_score EXCEPT
                      ![r] = [sid \in DOMAIN STATION_BY_ID |->
                                 IF sid = o THEN 0 ELSE Inf]]
               /\ f_score' = [f_score EXCEPT
                      ![r] = [sid \in DOMAIN STATION_BY_ID |->
                                 IF sid = o THEN dist(start, goal) ELSE Inf]]
               /\ transfers_count' = [transfers_count EXCEPT
                      ![r] = [sid \in DOMAIN STATION_BY_ID |-> 0]]
               /\ pc' = [pc EXCEPT ![r] = "search"]
               /\ UNCHANGED path_ids
    /\ UNCHANGED <<graph, req, result>>

\* "while path_ids[-1] != origin_id": the walk over came_from from the
\* destination, ended at the origin or at a station with no predecessor.  The
\* walk of the code has no bound; steps bounds it here by the number of
\* stations, which a walk over a cycle-free came_from never exhausts.
RECURSIVE WalkBack(_, _, _, _)
WalkBack(cf, origin, path, steps) ==
    LET last == path[Len(path)]
    IN IF last = origin \/ last \notin DOMAIN cf \/ steps = 0 THEN path
       ELSE CHOOSE out \in {WalkBack(cf, origin, longer, steps - 1) :
                               longer \in {Append(path, cf[last])}} : TRUE

Reconstruct(cf, origin, destination) ==
    CHOOSE out \in
        {SubSeq(Reverse(walk), 1, Len(walk)) :
            walk \in {WalkBack(cf, origin, <<destination>>,
                               Cardinality(DOMAIN cf) + 1)}} : TRUE

NoRoute(cf, origin, destination) ==
    destination \notin DOMAIN cf /\ destination # origin

\* The statements after the while loop: 400 when the destination has no
\* predecessor and is not the origin, else the path is reconstructed and the
\* itinerary assembled and returned.
AfterLoop(r) ==
    IF NoRoute(came_from[r], req[r].origin_id, req[r].destination_id)
    THEN /\ pc' = [pc EXCEPT ![r] = "noroute"]
         /\ UNCHANGED <<path_ids, result>>
    ELSE \E path \in {Reconstruct(came_from[r], req[r].origin_id,
                                  req[r].destination_id)} :
            /\ pc' = [pc EXCEPT ![r] = "done"]
            /\ path_ids' = [path_ids EXCEPT ![r] = path]
            /\ result' = [result EXCEPT
                             ![r] = Assemble(EDGES, STATION_BY_ID,
                                             req[r].options, path)]

\* Faulty variant of Expand: the search state held in module-level
\* dictionaries, so that an iteration of one request writes the state every
\* request reads.
ExpandShared(r) ==
    /\ pc[r] = "search"
    /\ open_set[r] # {}
    /\ \E current \in MinSet(open_set[r], f_score[r], transfers_count[r]) :
          IF current = req[r].destination_id
          THEN /\ AfterLoop(r)
               /\ UNCHANGED <<neighbors, open_set, came_from, came_etype,
                              g_score, f_score, transfers_count>>
          ELSE \E s \in {Relax([came_from |-> came_from[r],
                                came_etype |-> came_etype[r],
                                g_score |-> g_score[r],
                                f_score |-> f_score[r],
                                transfers_count |-> transfers_count[r],
                                open_set |-> open_set[r] \ {current}],
                               NeighborsGet(neighbors[r], current), current,
                               STATION_BY_ID[req[r].destination_id],
                               req[r].options, STATION_BY_ID)} :
                  /\ came_from' = [q \in Requests |-> s.came_from]
                  /\ came_etype' = [q \in Requests |-> s.came_etype]
                  /\ g_score' = [q \in Requests |-> s.g_score]
                  /\ f_score' = [q \in Requests |-> s.f_score]
                  /\ transfers_count' = [q \in Requests |-> s.transfers_count]
                  /\ open_set' = [q \in Requests |-> s.open_set]
                  /\ UNCHANGED <<neighbors, path_ids, pc, result>>
    /\ UNCHANGED <<graph, req>>

\* One iteration of "while open_set"; on break, the rest of a_star.
Expand(r) ==
    /\ pc[r] = "search"
    /\ open_set[r] # {}
    /\ \E current \in MinSet(open_set[r], f_score[r], transfers_count[r]) :
          IF current = req[r].destination_id
          THEN /\ AfterLoop(r)
               /\ UNCHANGED <<neighbors, open_set, came_from, came_etype,
                              g_score, f_score, transfers_count>>
          ELSE \E s \in {Relax([came_from |-> came_from[r],
                                came_etype |-> came_etype[r],
                                g_score |-> g_score[r],
                                f_score |-> f_score[r],
                                transfers_count |-> transfers_count[r],
                                open_set |-> open_set[r] \ {current}],
                               NeighborsGet(neighbors[r], current), current,
                               STATION_BY_ID[req[r].destination_id],
                               req[r].options, STATION_BY_ID)} :
                  /\ came_from' = [came_from EXCEPT ![r] = s.came_from]
                  /\ came_etype' = [came_etype EXCEPT ![r] = s.came_etype]
                  /\ g_score' = [g_score EXCEPT ![r] = s.g_score]
                  /\ f_score' = [f_score EXCEPT ![r] = s.f_score]
                  /\ transfers_count' = [transfers_count EXCEPT
                                            ![r] = s.transfers_count]
                  /\ open_set' = [open_set EXCEPT ![r] = s.open_set]
                  /\ UNCHANGED <<neighbors, path_ids, pc, result>>
    /\ UNCHANGED <<graph, req>>

\* "while open_set" falls through on an empty frontier; the rest of a_star.
Exhausted(r) ==
    /\ pc[r] = "search"
    /\ open_set[r] = {}
    /\ AfterLoop(r)
    /\ UNCHANGED <<graph, req, neighbors, open_set, came_from, came_etype,
                   g_score, f_score, transfers_count>>

\* A step of the handling of request r.
Handle(r) ==
    \/ ComputeRouteReflexive(r)
    \/ AStarEnter(r)
    \/ Expand(r)
    \/ Exhausted(r)

\* ------------------------------------------------------------ static data
\* The stations of a line, in id order, as add_line is given them.
NamesOf(lineOf, pointOf, line) ==
    LET ids == SetToSeq({i \in Ids : lineOf[i] = line})
    IN [k \in 1..Len(ids) |-> <<ids[k], pointOf[ids[k]][1], pointOf[ids[k]][2]>>]

RECURSIVE AddLines(_, _, _, _)
AddLines(g, lineOf, pointOf, k) ==
    IF k > Len(LineOrder) THEN g
    ELSE AddLines(AddLine(g, LineOrder[k], NamesOf(lineOf, pointOf, LineOrder[k])),
                  lineOf, pointOf, k + 1)

\* TRANSFERS joins stations of different lines.
CrossPairs(lineOf) == {<<a, b>> \in Ids \X Ids : a < b /\ lineOf[a] # lineOf[b]}

PairKey(p) == p[1] * (NumStations + 2) + p[2]

RECURSIVE PairSeq(_)
PairSeq(S) ==
    IF S = {} THEN <<>>
    ELSE LET m == CHOOSE x \in S : \A y \in S : PairKey(x) <= PairKey(y)
         IN <<m>> \o PairSeq(S \ {m})

\* The module-level statements of main.py, for one choice of the static data;
\* TRANSFERS ends with a placeholder pair whose second station is absent.
Import(lineOf, pointOf, transfers) ==
    LET g == AddLines([stations |-> <<>>, edges |-> <<>>], lineOf, pointOf, 1)
        byId == StationById(g.stations)
    IN [stations |-> g.stations,
        byId |-> byId,
        edges |-> AddTransfers(g.edges, byId,
                               PairSeq(transfers) \o <<<<1, UnknownId>>>>)]

\* The assignments of stations to lines.  Ids are labels: renaming the
\* stations so that the ids of an earlier line come first keeps each line's
\* order and the order of the add_line calls, so only such assignments are
\* drawn.
LineIndex(line) == CHOOSE k \in DOMAIN LineOrder : LineOrder[k] = line

Layouts == {lineOf \in [Ids -> Lines] :
               \A a, b \in Ids : a < b => LineIndex(lineOf[a]) <= LineIndex(lineOf[b])}

\* A line read from its other end has the same edges: only placements whose
\* lines start at the lower-ranked of their two end points are drawn.
Placements(lineOf) ==
    {pointOf \in [Ids -> Points] :
        \A line \in Lines :
            LET on == {i \in Ids : lineOf[i] = line}
            IN on # {} =>
                  PointRank(pointOf[CHOOSE i \in on : \A j \in on : i <= j])
                      <= PointRank(pointOf[CHOOSE i \in on : \A j \in on : j <= i])}

Imported == STATIONS # <<>>

Loaded(g) ==
    /\ STATIONS' = g.stations
    /\ EDGES' = g.edges
    /\ STATION_BY_ID' = g.byId
    /\ UNCHANGED <<req, pc, scratch, result>>

\* The import of main.py: the add_line calls, the lookup map, the transfers.
Startup ==
    /\ ~Imported
    /\ \E lineOf \in Layouts :
          \E pointOf \in Placements(lineOf), transfers \in SUBSET CrossPairs(lineOf) :
              Loaded(Import(lineOf, pointOf, transfers))

\* ---------------------------------------------------------------- arrivals
RequestIds == Ids \cup {UnknownId}

\* A direct call of a_star differs from compute_route only when the two ids
\* are equal.
Distinguishable(q) == q.entry = "compute_route" \/ q.origin_id = q.destination_id

\* The default of RouteOptions.transfer_penalty, 5.0, in units of 1/Scale.
DefaultPenalty == 100

DefaultOptions == [transfer_penalty |-> DefaultPenalty, mobility |-> "normal",
                   time_of_day |-> "offpeak", prefer_fewer_transfers |-> FALSE]

NoRequest == [origin_id |-> UnknownId, destination_id |-> UnknownId,
              options |-> DefaultOptions, entry |-> "compute_route"]

\* A request reads its options only once the search starts: not when an id is
\* absent, and not in compute_route's branch for equal ids.  A request that
\* never reads them is drawn with the default options only.
ReadsOptions(q) ==
    /\ q.origin_id \in Ids
    /\ q.destination_id \in Ids
    /\ q.entry = "a_star" \/ q.origin_id # q.destination_id

SingleRequests ==
    {q \in [origin_id : RequestIds, destination_id : RequestIds,
            options : RouteOptions \cup {DefaultOptions},
            entry : {"compute_route", "a_star"}] :
        /\ Distinguishable(q)
        /\ IF ReadsOptions(q) THEN q.options \in RouteOptions
           ELSE q.options = DefaultOptions}

\* A request arrives; in Spec the other requests stay idle.
Receive ==
    /\ Imported
    /\ \A r \in Requests : pc[r] = "idle"
    /\ \E q \in SingleRequests :
          req' = [req EXCEPT ![1] = q]
    /\ pc' = [pc EXCEPT ![1] = "request"]
    /\ UNCHANGED <<graph, scratch, result>>

Next ==
    \/ Startup
    \/ Receive
    \/ \E r \in Requests : Handle(r)

\* ------------------------------------------------------------------- Init
\* STATIONS and EDGES as main.py declares them, before the lines are added;
\* no request has arrived.
Init ==
    /\ STATIONS = <<>>
    /\ EDGES = <<>>
    /\ STATION_BY_ID = <<>>
    /\ req = [r \in Requests |-> NoRequest]
    /\ pc = [r \in Requests |-> "idle"]
    /\ neighbors = [r \in Requests |-> <<>>]
    /\ open_set = [r \in Requests |-> {}]
    /\ came_from = [r \in Requests |-> <<>>]
    /\ came_etype = [r \in Requests |-> <<>>]
    /\ g_score = [r \in Requests |-> <<>>]
    /\ f_score = [r \in Requests |-> <<>>]
    /\ transfers_count = [r \in Requests |-> <<>>]
    /\ path_ids = [r \in Requests |-> <<>>]
    /\ result = [r \in Requests |-> NoResult]

\* One request against any catalog of the bounded family.
Spec == Init /\ [][Next]_vars

\* Two requests in flight at once against one catalog: station 1 alone on the
\* first line, the other stations on the congested line, station 1 at the
\* first point and joined (or not) to both ends of that line.  The second
\* request asks for the same two stations in either direction, with the same
\* options or with prefer_fewer_transfers flipped.
ConcLayout == [i \in Ids |-> IF i = 1 THEN LineOrder[1] ELSE LineOrder[2]]
ConcTransfers == {<<1, 2>>, <<1, NumStations>>}

StartupConc ==
    /\ ~Imported
    /\ \E pointOf \in [Ids -> Points], transfers \in {{}, ConcTransfers} :
          /\ pointOf[1] = PointList[1]
          /\ Loaded(Import(ConcLayout, pointOf, transfers))

Flipped(options) ==
    [options EXCEPT !.prefer_fewer_transfers = ~options.prefer_fewer_transfers]

ReceiveTwo ==
    /\ Imported
    /\ \A r \in Requests : pc[r] = "idle"
    /\ \E o \in Ids, d \in Ids, options \in RouteOptions, same \in BOOLEAN,
          back \in BOOLEAN :
          req' = [r \in Requests |->
                     IF r = 1
                     THEN [origin_id |-> o, destination_id |-> d,
                           options |-> options, entry |-> "compute_route"]
                     ELSE IF r = 2
                     THEN [origin_id |-> IF back THEN d ELSE o,
                           destination_id |-> IF back THEN o ELSE d,
                           options |-> IF same THEN options ELSE Flipped(options),
                           entry |-> "compute_route"]
                     ELSE NoRequest]
    /\ pc' = [r \in Requests |-> IF r <= 2 THEN "request" ELSE "idle"]
    /\ UNCHANGED <<graph, scratch, result>>

NextConc ==
    \/ StartupConc
    \/ ReceiveTwo
    \/ \E r \in Requests : Handle(r)

SpecConc == Init /\ [][NextConc]_vars

\* ------------------------------------------------------ reference notions
\* What the claims speak of, defined without the search: the edge set, the
\* CostModel of the specification, minimal path weights, reachability.
EdgeSet == {EDGES[i] : i \in DOMAIN EDGES}

SumSeq(seq) == SumField([i \in DOMAIN seq |-> [n |-> seq[i]]], 1, "n")

\* CostModel: base distance; for TRANSFER, plus the penalty, times 1.5 when
\* mobility is reduced; for LINE, times 1.15 at peak on lines 3 and 9.
CostModel(e, options) ==
    LET base == dist(STATION_BY_ID[e[1]], STATION_BY_ID[e[2]])
    IN IF e[3] = "transfer"
       THEN IF options.mobility = "reduced"
            THEN ((base + options.transfer_penalty) * 3) \div 2
            ELSE base + options.transfer_penalty
       ELSE IF options.time_of_day = "peak"
               /\ STATION_BY_ID[e[1]].line \in {"3", "9"}
            THEN (base * 23) \div 20
            ELSE base

\* CostModel plus 0.5 for a TRANSFER edge.
BiasedCost(e, options) ==
    CostModel(e, options) + (IF e[3] = "transfer" THEN Scale \div 2 ELSE 0)

SetMin(S) == CHOOSE x \in S : \A y \in S : x <= y

\* One round of Bellman-Ford over the edge set with weights w; D is the
\* sequence of the path weights found so far, indexed by station id.
BFRound(D, w) ==
    SubSeq([v \in 1..Len(D) |->
               LET into == {x \in EdgeSet : x[2] = v /\ D[x[1]] # Inf}
                   cands == (IF D[v] = Inf THEN {} ELSE {D[v]})
                            \cup {D[e[1]] + w[e] : e \in into}
               IN IF cands = {} THEN Inf ELSE SetMin(cands)],
           1, Len(D))

RECURSIVE BFRounds(_, _, _)
BFRounds(D, w, k) == IF k = 0 THEN D ELSE BFRounds(BFRound(D, w), w, k - 1)

\* The minimum over all paths from o to d of the sum of w (Inf when none).
MinPathWeight(o, d, w) ==
    BFRounds(SubSeq([v \in Ids |-> IF v = o THEN 0 ELSE Inf], 1, NumStations), w,
             NumStations)[d]

MinCost(q) ==
    MinPathWeight(q.origin_id, q.destination_id,
                  [e \in EdgeSet |-> CostModel(e, q.options)])

MinBiasedCost(q) ==
    MinPathWeight(q.origin_id, q.destination_id,
                  [e \in EdgeSet |-> BiasedCost(e, q.options)])

RECURSIVE ReachFrom(_)
ReachFrom(S) ==
    LET T == S \cup {e[2] : e \in {x \in EdgeSet : x[1] \in S}}
    IN IF T = S THEN S ELSE ReachFrom(T)

Reachable(o, d) == d \in ReachFrom({o})

KnownPair(r) == Known(req[r].origin_id) /\ Known(req[r].destination_id)
Distinct(r) == req[r].origin_id # req[r].destination_id
Searched(r) == pc[r] = "done" /\ KnownPair(r) /\ Distinct(r)

\* ----------------------------------------------------------------- claims

\* C1 (as stated): whenever a search between known, distinct, connected
\* stations returns, total_cost is the minimum over all paths of the sum of
\* the CostModel edge costs, for every value of prefer_fewer_transfers.
C1_OptimalForAllOptions ==
    \A r \in Requests :
        Searched(r) => result[r].total_cost = Round3(MinCost(req[r]))

\* C1 (amended): with prefer_fewer_transfers false, total_cost is the minimum
\* over all paths of the sum of the CostModel edge costs; with
\* prefer_fewer_transfers true, total_cost plus 0.5 per transfer of the route
\* is the minimum over all paths of the CostModel cost plus 0.5 per TRANSFER
\* edge (and total_cost is never below the CostModel minimum).
C1_Optimal ==
    \A r \in Requests :
        Searched(r) =>
            IF req[r].options.prefer_fewer_transfers
            THEN /\ result[r].total_cost + Round3(TieBreak * result[r].transfers)
                       = Round3(MinBiasedCost(req[r]))
                 /\ result[r].total_cost >= Round3(MinCost(req[r]))
            ELSE result[r].total_cost = Round3(MinCost(req[r]))

\* A route returned with prefer_fewer_transfers set whose total_cost is above
\* the CostModel minimum.
C1_Witness ==
    \E r \in Requests :
        /\ Searched(r)
        /\ req[r].options.prefer_fewer_transfers
        /\ result[r].total_cost > Round3(MinCost(req[r]))

\* C3: a returned route starts at the origin, ends at the destination, every
\* consecutive pair of its path is an edge of the graph, and segments holds
\* one entry per consecutive pair, in order, with that pair as from_id/to_id.
C3_PathValid ==
    \A r \in Requests :
        pc[r] = "done" =>
            LET path == result[r].path
                segs == result[r].segments
            IN /\ Len(path) >= 1
               /\ path[1] = req[r].origin_id
               /\ path[Len(path)] = req[r].destination_id
               /\ \A i \in 1..(Len(path) - 1) :
                     \E kind \in {"line", "transfer"} :
                         <<path[i], path[i + 1], kind>> \in EdgeSet
               /\ Len(segs) = Len(path) - 1
               /\ \A i \in 1..Len(segs) :
                     segs[i].from_id = path[i] /\ segs[i].to_id = path[i + 1]

\* A returned route over at least two edges.
C3_Witness ==
    \E r \in Requests : pc[r] = "done" /\ Len(result[r].path) >= 3

\* C4: in a returned route every segment has the kind of the edge the search
\* recorded for its end station and the cost the search's neighbor map gives
\* that edge, without the +0.5 tie-break, and total_cost is the rounded sum of
\* the segment costs.
C4_ReportedCosts ==
    \A r \in Requests :
        pc[r] = "done" =>
            LET path == result[r].path
                segs == result[r].segments
            IN /\ \A i \in 1..Len(segs) :
                     /\ path[i + 1] \in DOMAIN came_etype[r]
                     /\ segs[i].type = came_etype[r][path[i + 1]]
                     /\ segs[i].cost =
                            StepCost(STATION_BY_ID[path[i]], STATION_BY_ID[path[i + 1]],
                                     came_etype[r][path[i + 1]], req[r].options)
               /\ result[r].total_cost
                      = Round3(SumSeq([i \in DOMAIN segs |-> segs[i].cost]))
               /\ result[r].total_distance
                      = Round3(SumSeq([i \in DOMAIN segs |-> segs[i].distance]))

\* A returned route with a transfer, searched with prefer_fewer_transfers.
C4_Witness ==
    \E r \in Requests :
        /\ pc[r] = "done"
        /\ req[r].options.prefer_fewer_transfers
        /\ result[r].transfers >= 1
        /\ g_score[r][req[r].destination_id]
               > SumSeq([i \in DOMAIN result[r].segments |-> result[r].segments[i].cost])

\* The total_cost of the returned path under the returned options with
\* mobility set to m.
CostUnderMobility(r, m) ==
    IF req[r].options.mobility = m THEN result[r].total_cost
    ELSE Assemble(EDGES, STATION_BY_ID, [req[r].options EXCEPT !.mobility = m],
                  result[r].path).total_cost

OneTransfer(r) ==
    /\ pc[r] = "done"
    /\ Cardinality({i \in DOMAIN result[r].segments :
                       result[r].segments[i].type = "transfer"}) = 1

TransferSegment(r) ==
    result[r].segments[CHOOSE i \in DOMAIN result[r].segments :
                           result[r].segments[i].type = "transfer"]

\* C5 (as stated): on a path with exactly one TRANSFER edge, total_cost with
\* reduced mobility exceeds total_cost with normal mobility by half the base
\* distance of that edge, for every transfer_penalty.
C5_HalfOfBase ==
    \A r \in Requests :
        OneTransfer(r) =>
            CostUnderMobility(r, "reduced") - CostUnderMobility(r, "normal")
                = Round3(TransferSegment(r).distance \div 2)

\* C5 (amended): the difference is half of (the base distance of the transfer
\* edge plus transfer_penalty).
C5_HalfOfBasePlusPenalty ==
    \A r \in Requests :
        OneTransfer(r) =>
            CostUnderMobility(r, "reduced") - CostUnderMobility(r, "normal")
                = Round3((TransferSegment(r).distance
                          + req[r].options.transfer_penalty) \div 2)

\* A returned route with exactly one transfer, of non-zero base distance,
\* under a non-zero penalty and reduced mobility.
C5_Witness ==
    \E r \in Requests :
        /\ OneTransfer(r)
        /\ TransferSegment(r).distance > 0
        /\ req[r].options.transfer_penalty > 0
        /\ req[r].options.mobility = "reduced"
        /\ Len(result[r].segments) >= 2

ScratchEmpty(r) ==
    /\ neighbors[r] = <<>>
    /\ open_set[r] = {}
    /\ came_from[r] = <<>>
    /\ came_etype[r] = <<>>
    /\ g_score[r] = <<>>
    /\ f_score[r] = <<>>
    /\ transfers_count[r] = <<>>
    /\ path_ids[r] = <<>>

\* C6: a request with an absent origin or destination id, equal ids included,
\* is either still to be handled (and can be) or has ended in StationNotFound;
\* it never has any search state, nor a result.
C6_UnknownId ==
    \A r \in Requests :
        (pc[r] # "idle" /\ ~KnownPair(r)) =>
            /\ pc[r] \in {"request", "notfound"}
            /\ pc[r] = "request" => ENABLED (ComputeRouteReflexive(r) \/ AStarEnter(r))
            /\ ScratchEmpty(r)
            /\ result[r] = NoResult

\* StationNotFound for a known origin with an absent destination.
C6_Witness ==
    \E r \in Requests :
        /\ pc[r] = "notfound"
        /\ Known(req[r].origin_id)
        /\ ~Known(req[r].destination_id)

\* C7: a finished request between known, distinct stations has ended in
\* NoRouteFound, with no result, exactly when the destination is not reachable
\* from the origin along the directed edges, and with a complete route from
\* origin to destination exactly when it is.
C7_NoRouteIffDisconnected ==
    \A r \in Requests :
        (pc[r] \in Terminal /\ KnownPair(r) /\ Distinct(r)) =>
            IF Reachable(req[r].origin_id, req[r].destination_id)
            THEN /\ pc[r] = "done"
                 /\ Len(result[r].path) >= 2
                 /\ result[r].path[1] = req[r].origin_id
                 /\ result[r].path[Len(result[r].path)] = req[r].destination_id
                 /\ Len(result[r].segments) = Len(result[r].path) - 1
            ELSE /\ pc[r] = "noroute"
                 /\ result[r] = NoResult

\* NoRouteFound after a search that expanded more than the origin.
C7_Witness ==
    \E r \in Requests :
        /\ pc[r] = "noroute"
        /\ Cardinality(DOMAIN came_from[r]) >= 1


\* One request against a catalog of the two-line family of StartupConc.
NextOne ==
    \/ StartupConc
    \/ Receive
    \/ \E r \in Requests : Handle(r)

\* Under weak fairness of the handling steps: a request that has arrived is
\* not left waiting forever (the handler runs to its end once called).
FairSpec == Init /\ [][NextOne]_vars /\ WF_vars(\E r \in Requests : Handle(r))

\* Every station with a predecessor leads back to the origin within as many
\* steps as there are stations, and the origin has no predecessor.
WellFounded(r) ==
    /\ req[r].origin_id \notin DOMAIN came_from[r]
    /\ \A v \in DOMAIN came_from[r] :
          LET walk == WalkBack(came_from[r], req[r].origin_id, <<v>>, NumStations)
          IN walk[Len(walk)] = req[r].origin_id

\* C9: every request ends (the loop stops on the destination or on an empty
\* frontier), and at every point of a search the predecessor map has no cycle,
\* gives the origin no predecessor, and leads from each of its stations back
\* to the origin.
C9_Terminates ==
    /\ \A r \in Requests : (pc[r] = "request") ~> (pc[r] \in Terminal)
    /\ [](\A r \in Requests : WellFounded(r))

\* A search that had to improve a station it had already reached.
C9_Witness ==
    \E r \in Requests :
        /\ pc[r] = "done"
        /\ Cardinality(DOMAIN came_from[r]) = NumStations - 1
        /\ Len(result[r].path) = NumStations
        /\ open_set[r] = {req[r].destination_id}

\* ------------------------------------------------ claims on two requests
\* The outcomes a request has when it runs alone: every way the search can
\* go from the scores s, by the same steps.
RECURSIVE SoloSearch(_, _)
SoloSearch(s, q) ==
    IF s.open_set = {} THEN {s}
    ELSE UNION {IF current = q.destination_id THEN {s}
                ELSE SoloSearch(
                         Relax([s EXCEPT !.open_set = s.open_set \ {current}],
                               NeighborsOf(EDGES, STATION_BY_ID, q.options, current),
                               current, STATION_BY_ID[q.destination_id],
                               q.options, STATION_BY_ID), q) :
                    current \in MinSet(s.open_set, s.f_score, s.transfers_count)}

SoloOutcomes(q) ==
    IF ~(q.origin_id \in DOMAIN STATION_BY_ID /\ q.destination_id \in DOMAIN STATION_BY_ID)
    THEN {[pc |-> "notfound", result |-> NoResult]}
    ELSE IF q.entry = "compute_route" /\ q.origin_id = q.destination_id
    THEN {[pc |-> "done", result |-> ReflexiveResult(STATION_BY_ID[q.origin_id])]}
    ELSE LET s0 == [came_from |-> <<>>, came_etype |-> <<>>,
                    g_score |-> [sid \in DOMAIN STATION_BY_ID |->
                                    IF sid = q.origin_id THEN 0 ELSE Inf],
                    f_score |-> [sid \in DOMAIN STATION_BY_ID |->
                                    IF sid = q.origin_id
                                    THEN dist(STATION_BY_ID[q.origin_id],
                                              STATION_BY_ID[q.destination_id])
                                    ELSE Inf],
                    transfers_count |-> [sid \in DOMAIN STATION_BY_ID |-> 0],
                    open_set |-> {q.origin_id}]
         IN {IF NoRoute(s.came_from, q.origin_id, q.destination_id)
             THEN [pc |-> "noroute", result |-> NoResult]
             ELSE [pc |-> "done",
                   result |-> Assemble(EDGES, STATION_BY_ID, q.options,
                                  Reconstruct(s.came_from, q.origin_id,
                                              q.destination_id))] :
                s \in SoloSearch(s0, q)}

Local(r) == <<pc[r], neighbors[r], open_set[r], came_from[r], came_etype[r],
              g_score[r], f_score[r], transfers_count[r], path_ids[r], result[r]>>

\* C2: two finished calls with identical origin, destination and options
\* have returned the same RouteResult.
C2_Deterministic ==
    (pc[1] = "done" /\ pc[2] = "done" /\ req[1] = req[2]) => result[1] = result[2]

\* C8: once imported, no step changes the station catalog, the edge list or
\* the id lookup map; a step taken while requests are in flight changes the
\* state of one request only; and a request that ran interleaved with another
\* has an outcome it can have when it runs alone.
C8_Isolated ==
    /\ [][Imported =>
             /\ graph' = graph
             /\ (\E r \in Requests : pc[r] # "idle") =>
                   \A r, s \in Requests :
                       (r # s /\ Local(r)' # Local(r)) => Local(s)' = Local(s)]_vars
    /\ [](\A r \in Requests :
             pc[r] \in Terminal =>
                 [pc |-> pc[r], result |-> result[r]] \in SoloOutcomes(req[r]))

\* Two searches under way at once, each past its first expansion.
C8_Witness ==
    /\ pc[1] = "search" /\ pc[2] = "search"
    /\ req[1] # req[2]
    /\ came_from[1] # <<>> /\ came_from[2] # <<>>
    /\ came_from[1] # came_from[2]

TransferSegments(r) ==
    Cardinality({i \in DOMAIN result[r].segments :
                    result[r].segments[i].type = "transfer"})

\* C10: of two finished searches that differ only in prefer_fewer_transfers,
\* the one that prefers fewer transfers has no more transfers than the other;
\* and in every returned route transfers is the number of transfer segments
\* and the transfer count the search recorded for the destination.
C10_FewerTransfers ==
    /\ \A r, s \in Requests :
          (/\ Searched(r) /\ Searched(s)
           /\ req[r].options.prefer_fewer_transfers
           /\ req[s] = [req[r] EXCEPT !.options.prefer_fewer_transfers = FALSE])
              => result[r].transfers <= result[s].transfers
    /\ \A r \in Requests :
          Searched(r) =>
              /\ result[r].transfers = TransferSegments(r)
              /\ result[r].transfers = transfers_count[r][req[r].destination_id]

\* The preferring search returned strictly fewer transfers than the other.
C10_Witness ==
    \E r, s \in Requests :
        /\ Searched(r) /\ Searched(s)
        /\ req[r].options.prefer_fewer_transfers
        /\ req[s] = [req[r] EXCEPT !.options.prefer_fewer_transfers = FALSE]
        /\ result[r].transfers < result[s].transfers

====
